---------------------------- MODULE Spec2Model ----------------------------
(***************************************************************************)
(* A model of textual's DOMNode (src/textual/dom.py): node identity, the   *)
(* parent/children structure built by add_child and add_children, the      *)
(* traversals over it (ancestors, css_path_nodes, walk_children), the      *)
(* lookup get_child and the class set operations.                          *)
(***************************************************************************)
EXTENDS Integers, Sequences, FiniteSets, TLC

(* ------------------------------ bounds -------------------------------- *)

\* Number of DOMNode objects that exist.
NumNodes == 4

\* Number of nodes and ids handed to id assignments, add_child and
\* add_children over a whole run of arbitrary callers.
MaxOps == 2

\* Number of class names handed to one add_class, remove_class or
\* toggle_class call.
MaxNames == 2

\* Number of presses of a run that go through.
MaxPress == 2

(* ------------------------------ values -------------------------------- *)

Nodes == 1..NumNodes

\* The nodes the runs of arbitrary callers work with: all but the last.
ArgNodes == 1..(NumNodes - 1)

\* The value None where a node is expected (DOMNode._parent of a detached node).
NoNode == 0

\* The value None where an id is expected.
NoId == "None"

\* The id strings a caller uses.
Ids == {"a", "b"}

\* The class names a caller uses.
ClassNames == {"x", "y"}

Range(s) == {s[i] : i \in 1..Len(s)}

Reverse(s) == [i \in 1..Len(s) |-> s[Len(s) + 1 - i]]

\* All sequences over S of length at most n.
SeqsUpTo(S, n) == UNION {[1..k -> S] : k \in 0..n}

VARIABLES
    id,        \* DOMNode._id of every node
    parent,    \* DOMNode._parent of every node
    children,  \* DOMNode.children of every node, in list order
    classes,   \* DOMNode._classes of every node
    call,      \* the last call made: its name, receiver, arguments and outcome
    ops,       \* number of nodes and ids handed to mutating calls so far
    anc,       \* the running call of the property `ancestors`
    tog,       \* the last run of identical toggle_class calls on one node
    attached,  \* whether an application context is attached (self.app is there)
    css_styles,     \* DOMNode._css_styles of every node: the rules the cascade set
    inline_styles,  \* DOMNode._inline_styles of every node: the rules set on the node
    flip,      \* the last run of display = False, display = True on one node
    disabled,  \* Widget.disabled of every node
    timers,    \* the timers that set_timer started and that have not expired, in expiry order
    queue,     \* the message queue of every node, first in first
    delivered, \* for every press, the nodes its Button.Pressed was dispatched on, in order
    stopped,   \* the presses whose Button.Pressed message a handler has stopped
    presses,   \* number of presses that went through so far
    variant    \* Button.variant of every node

styling == <<css_styles, inline_styles, flip>>

pump == <<disabled, timers, queue, delivered, stopped, presses, variant>>

vars == <<id, parent, children, classes, call, ops, anc, tog, attached, pump, styling>>

tree == <<id, parent, children>>

\* `ancestors` is not running.
AncIdle == [pc |-> "idle", self |-> NoNode, node |-> NoNode, nodes |-> <<>>]

\* No toggle_class call has been made yet.
NoToggle == [node |-> NoNode, names |-> <<>>, before |-> {}, count |-> 0]

\* A rule that a Styles object does not have.
Unset == "unset"

\* The style rules of the model.
StyleProps == {"display", "visibility", "text_style", "color", "background"}

\* Styles(): a Styles object with no rules.
NoRules == [p \in StyleProps |-> Unset]

\* No display = False has been assigned yet.
NoFlip == [node |-> NoNode, before |-> Unset, count |-> 0]

\* No value has been handed to a call.  A value is a bool (b), a str (s) or
\* an int (i), as `kind` says.
NoValue == [kind |-> "none", b |-> FALSE, s |-> "", i |-> 0]

\* No style has been computed.
NoStyle == [bgcolor |-> <<>>, color |-> "", style |-> <<>>]

\* No call has been made yet.  A call records its name (op), its receiver
\* (self), its node arguments (nodes) and keyword arguments (named), its class
\* names (names), an id argument (key), a flag argument (flag), a value
\* assigned (val), whether it returned or which error
\* it raised (result), the style it returned (style), the node (ret) or list (out) it returned, and the calls
\* it made on the application and on itself (effects), in order.
NoCall == [op |-> "none", self |-> NoNode, nodes |-> <<>>, named |-> <<>>, names |-> <<>>, key |-> NoId, flag |-> FALSE, val |-> NoValue, style |-> NoStyle, result |-> "ok", ret |-> NoNode, out |-> <<>>, effects |-> <<>>]

(* --------------------------- construction ----------------------------- *)

\* DOMNode.__init__: the id is the `id` argument (None by default), the node
\* has no parent, no classes and an empty NodeList of children.  The first
\* node is constructed with or without an id, the others without: they get
\* theirs by assignment.
InitTree ==
    /\ id \in {f \in [Nodes -> Ids \cup {NoId}] : \A n \in Nodes : n # 1 => f[n] = NoId}
    /\ parent = [n \in Nodes |-> NoNode]
    /\ children = [n \in Nodes |-> <<>>]

\* DOMNode.__init__: _css_styles is Styles(self), without rules, and
\* _inline_styles is what INLINE_STYLES, the empty string, parses to.
InitStyling ==
    /\ css_styles = [n \in Nodes |-> NoRules]
    /\ inline_styles = [n \in Nodes |-> NoRules]
    /\ flip = NoFlip

\* MessagePump.__init__ and Widget.__init__: an empty queue, no timers, not
\* disabled; nothing has been pressed or dispatched.
InitPump ==
    /\ disabled = [n \in Nodes |-> FALSE]
    /\ timers = <<>>
    /\ queue = [n \in Nodes |-> <<>>]
    /\ delivered = [k \in 1..MaxPress |-> <<>>]
    /\ stopped = {}
    /\ presses = 0
    /\ variant = [n \in Nodes |-> "default"]

Init ==
    /\ InitTree
    /\ classes = [n \in Nodes |-> {}]
    /\ call = NoCall
    /\ ops = 0
    /\ anc = AncIdle
    /\ tog = NoToggle
    /\ attached = FALSE
    /\ InitStyling
    /\ InitPump

(* ------------------------------- id ----------------------------------- *)

\* The id setter with its guard left out: the assignment always stores.
IdSetterUnguarded(ids, n, new_id) == [id |-> [ids EXCEPT ![n] = new_id], result |-> "ok"]

\* DOMNode.id (setter): raises ValueError when the id is already set,
\* otherwise stores new_id.
IdSetter(ids, n, new_id) ==
    IF ids[n] # NoId
    THEN [id |-> ids, result |-> "ValueError"]
    ELSE [id |-> [ids EXCEPT ![n] = new_id], result |-> "ok"]

\* A caller assigns node.id = new_id.
SetId(n, new_id) ==
    /\ anc.pc = "idle"
    /\ LET r == IdSetter(id, n, new_id) IN
         /\ id' = r.id
         /\ call' = [NoCall EXCEPT !.op = "set_id", !.self = n, !.key = new_id, !.result = r.result]
    /\ ops' = ops + 1
    /\ UNCHANGED <<parent, children, classes, anc, tog, attached, pump, styling>>

(* ------------------------- add_child / add_children ------------------- *)

\* NodeList._append(node): adds the node at the end of the list.  Appending a
\* node the list already holds leaves an undefined structural state: the list
\* either ignores the second append or holds the node twice.
NodeList_append(list, node) ==
    IF node \in Range(list) THEN {list, Append(list, node)} ELSE {Append(list, node)}

\* MessagePump.set_parent(parent): stores the parent pointer of the node.
set_parent(par, node, p) == [par EXCEPT ![node] = p]

\* DOMNode.add_child(node): append to self.children, then node.set_parent(self).
AddChild(self, node) ==
    /\ anc.pc = "idle"
    /\ \E list \in NodeList_append(children[self], node) :
         children' = [children EXCEPT ![self] = list]
    /\ parent' = set_parent(parent, node, self)
    /\ ops' = ops + 1
    /\ call' = [NoCall EXCEPT !.op = "add_child", !.self = self, !.nodes = <<node>>]
    /\ UNCHANGED <<id, classes, anc, tog, attached, pump, styling>>

\* The first loop of add_children: every positional node is appended.
RECURSIVE PositionalLoop(_, _)
PositionalLoop(list, nodes) ==
    IF nodes = <<>>
    THEN {list}
    ELSE UNION {PositionalLoop(l, Tail(nodes)) : l \in NodeList_append(list, Head(nodes))}

\* The second loop of add_children: every keyword node is appended and then
\* given the keyword as its id; the id setter's ValueError ends the call
\* after the append.
RECURSIVE NamedLoop(_, _, _)
NamedLoop(list, ids, named) ==
    IF named = <<>>
    THEN {[children |-> list, id |-> ids, result |-> "ok"]}
    ELSE LET node_id == Head(named)[1]
             node == Head(named)[2]
             r == IdSetter(ids, node, node_id)
         IN  UNION {IF r.result # "ok"
                    THEN {[children |-> l, id |-> ids, result |-> r.result]}
                    ELSE NamedLoop(l, r.id, Tail(named)) : l \in NodeList_append(list, node)}

\* The keyword arguments of one call: (keyword, node) pairs in call order,
\* no keyword twice.
NamedArgs(n) == {s \in SeqsUpTo(Ids \X ArgNodes, n) : \A i, j \in 1..Len(s) : i # j => s[i][1] # s[j][1]}

\* DOMNode.add_children(*nodes, **named_nodes).
AddChildren(self, nodes, named) ==
    /\ anc.pc = "idle"
    /\ \E l \in PositionalLoop(children[self], nodes) :
         \E r \in NamedLoop(l, id, named) :
            /\ children' = [children EXCEPT ![self] = r.children]
            /\ id' = r.id
            /\ call' = [NoCall EXCEPT !.op = "add_children", !.self = self, !.nodes = nodes, !.named = named, !.result = r.result]
    /\ ops' = ops + Len(nodes) + Len(named)
    /\ UNCHANGED <<parent, classes, anc, tog, attached, pump, styling>>

(* ------------------------------ ancestors ----------------------------- *)

\* DOMNode.ancestors, from the state of its loop at `node` with the list
\* `nodes` built so far.  A chain of parents that comes back to a node it has
\* left never ends; `fuel` (more than any chain without a repeat needs) cuts
\* such a run, and `done` tells whether the loop reached `node is None`.
RECURSIVE AncestorsFrom(_, _, _)
AncestorsFrom(node, nodes, fuel) ==
    LET next == parent[node]
    IN  IF next = NoNode THEN [done |-> TRUE, nodes |-> nodes]
        ELSE IF fuel = 0 THEN [done |-> FALSE, nodes |-> nodes]
        ELSE AncestorsFrom(next, Append(nodes, next), fuel - 1)

\* DOMNode.ancestors of node n.
ancestors(n) == AncestorsFrom(n, <<n>>, NumNodes)

\* A caller reads node.ancestors: nodes = [self], node = self.
AncestorsCall(n) ==
    /\ anc.pc = "idle"
    /\ anc' = [pc |-> "loop", self |-> n, node |-> n, nodes |-> <<n>>]
    /\ UNCHANGED <<id, parent, children, classes, call, ops, tog, attached, pump, styling>>

\* One pass of the `while True` loop of ancestors: node = node.parent, then
\* either the break and the return of the list, or the append.  The list of a
\* loop that never ends is followed up to one entry more than there are nodes.
AncestorsLoop ==
    /\ anc.pc = "loop"
    /\ Len(anc.nodes) <= NumNodes
    /\ LET node == parent[anc.node]
       IN  IF node = NoNode
           THEN /\ anc' = AncIdle
                /\ call' = [NoCall EXCEPT !.op = "ancestors", !.self = anc.self, !.out = anc.nodes]
           ELSE /\ anc' = [anc EXCEPT !.node = node, !.nodes = Append(@, node)]
                /\ call' = call
    /\ UNCHANGED <<id, parent, children, classes, ops, tog, attached, pump, styling>>

(* ---------------------------- css_path_nodes -------------------------- *)

\* The loop of css_path_nodes: while the node's parent is a DOMNode, step to
\* it and append it.
RECURSIVE CssPathFrom(_, _, _)
CssPathFrom(node, result, fuel) ==
    IF parent[node] \in Nodes /\ fuel > 0
    THEN CssPathFrom(parent[node], Append(result, parent[node]), fuel - 1)
    ELSE [done |-> parent[node] \notin Nodes, nodes |-> result]

\* css_path_nodes returning the list as the loop built it, not reversed.
CssPathNodesNotReversed(n) == CssPathFrom(n, <<n>>, NumNodes).nodes

\* DOMNode.css_path_nodes: result[::-1].
css_path_nodes(n) == Reverse(CssPathFrom(n, <<n>>, NumNodes).nodes)

\* A caller reads node.css_path_nodes.
CssPathNodes(n) ==
    /\ anc.pc = "idle"
    /\ CssPathFrom(n, <<n>>, NumNodes).done
    /\ call' = [NoCall EXCEPT !.op = "css_path_nodes", !.self = n, !.out = css_path_nodes(n)]
    /\ UNCHANGED <<id, parent, children, classes, ops, anc, tog, attached, pump, styling>>

(* ----------------------------- walk_children -------------------------- *)

\* Steps a walk over a tree of NumNodes nodes needs at most: one per node
\* yielded and one per iterator popped.
WalkFuel == 2 * NumNodes + 2

\* The `while stack` loop of walk_children.  An entry of the stack is an
\* iterator over the children of `node`, about to give the child at `pos`
\* (a NodeList gives its nodes in list order, and is true when it holds one).
RECURSIVE WalkLoop(_, _, _)
WalkLoop(stack, out, fuel) ==
    IF stack = <<>> THEN [done |-> TRUE, out |-> out]
    ELSE IF fuel = 0 THEN [done |-> FALSE, out |-> out]
    ELSE LET top == stack[Len(stack)]
         IN  IF top.pos > Len(children[top.node])
             THEN WalkLoop(SubSeq(stack, 1, Len(stack) - 1), out, fuel - 1)
             ELSE LET node == children[top.node][top.pos]
                      advanced == [stack EXCEPT ![Len(stack)].pos = @ + 1]
                      pushed == IF children[node] # <<>>
                                THEN Append(advanced, [node |-> node, pos |-> 1])
                                ELSE advanced
                  IN  WalkLoop(pushed, Append(out, node), fuel - 1)

\* The loop with the iterators taken first in, first out (stack[0], pop(0)).
RECURSIVE WalkLoopFifo(_, _, _)
WalkLoopFifo(stack, out, fuel) ==
    IF stack = <<>> THEN [done |-> TRUE, out |-> out]
    ELSE IF fuel = 0 THEN [done |-> FALSE, out |-> out]
    ELSE LET top == stack[1]
         IN  IF top.pos > Len(children[top.node])
             THEN WalkLoopFifo(Tail(stack), out, fuel - 1)
             ELSE LET node == children[top.node][top.pos]
                      advanced == [stack EXCEPT ![1].pos = @ + 1]
                      pushed == IF children[node] # <<>>
                                THEN Append(advanced, [node |-> node, pos |-> 1])
                                ELSE advanced
                  IN  WalkLoopFifo(pushed, Append(out, node), fuel - 1)

\* walk_children with the first-in, first-out loop.
walk_children_fifo(self, with_self) == WalkLoopFifo(<<[node |-> self, pos |-> 1]>>, IF with_self THEN <<self>> ELSE <<>>, WalkFuel)

\* DOMNode.walk_children(with_self): the stack starts with iter(self.children);
\* self is yielded first when with_self.
walk_children(self, with_self) == WalkLoop(<<[node |-> self, pos |-> 1]>>, IF with_self THEN <<self>> ELSE <<>>, WalkFuel)

\* A caller runs walk_children to its end and keeps what it yielded.
WalkChildren(n, with_self) ==
    /\ anc.pc = "idle"
    /\ LET r == walk_children(n, with_self)
       IN  call' = [NoCall EXCEPT !.op = "walk_children", !.self = n, !.flag = with_self,
                                  !.result = IF r.done THEN "ok" ELSE "running", !.out = r.out]
    /\ UNCHANGED <<id, parent, children, classes, ops, anc, tog, attached, pump, styling>>

(* ------------------------------- get_child ---------------------------- *)

\* The loop of get_child over a list of children: the first one whose id is
\* `key` is returned; NoMatchingNodesError is raised after the loop.
RECURSIVE GetChildFrom(_, _)
GetChildFrom(list, key) ==
    IF list = <<>> THEN [result |-> "NoMatchingNodesError", ret |-> NoNode]
    ELSE IF id[Head(list)] = key THEN [result |-> "ok", ret |-> Head(list)]
    ELSE GetChildFrom(Tail(list), key)

\* The children of the nodes of a list, list after list.
RECURSIVE ChildrenOfAll(_)
ChildrenOfAll(list) == IF list = <<>> THEN <<>> ELSE children[Head(list)] \o ChildrenOfAll(Tail(list))

\* get_child looking through the children and then through their children.
get_child_deeper(self, key) == GetChildFrom(children[self] \o ChildrenOfAll(children[self]), key)

\* DOMNode.get_child(id).
get_child(self, key) == GetChildFrom(children[self], key)

\* A caller calls node.get_child(key).
GetChild(n, key) ==
    /\ anc.pc = "idle"
    /\ LET r == get_child(n, key)
       IN  call' = [NoCall EXCEPT !.op = "get_child", !.self = n, !.key = key, !.result = r.result, !.ret = r.ret]
    /\ UNCHANGED <<id, parent, children, classes, ops, anc, tog, attached, pump, styling>>

(* ------------------------------- classes ------------------------------ *)

\* The application, as the root of a style recomputation.
TheApp == "app"

\* One thing a call did, in the order the call did it: `do` names it, `root`
\* is what a style recomputation starts from, `node` the node whose class set
\* was changed or whose repaint was asked for, and `seen` the class set of the
\* node of the call at that moment.
Effect(do, root, node, seen) == [do |-> do, root |-> root, node |-> node, seen |-> seen]

\* self.app: the application when one is attached; the lookup raises
\* LookupError when none is.
app == IF attached THEN TheApp ELSE "LookupError"

\* The tail with the style recomputation and the repaint outside the try: they
\* are done whether or not an application is attached.
ClassEffectsAlways(n, cls) == <<Effect("stylesheet.update", TheApp, NoNode, cls), Effect("refresh", "none", n, cls)>>

\* The tail with the repaint asked for before the style recomputation.
ClassEffectsRefreshFirst(n, cls) == IF attached THEN <<Effect("refresh", "none", n, cls), Effect("stylesheet.update", TheApp, NoNode, cls)>> ELSE <<>>

\* The tail of add_class, remove_class and toggle_class on node n, whose class
\* set is cls by then: inside the try,
\* self.app.stylesheet.update(self.app, animate=True) and then self.refresh();
\* self.app raises LookupError when no application is attached, and the except
\* clause passes.
ClassEffects(n, cls) == IF app # "LookupError" THEN <<Effect("stylesheet.update", app, NoNode, cls), Effect("refresh", "none", n, cls)>> ELSE <<>>

\* What a class call on node n did: the set operation on _classes, which
\* leaves it as cls, and then the tail.
ClassCall(n, cls) == <<Effect("_classes", "none", n, cls)>> \o ClassEffects(n, cls)

\* The nodes whose classes the callers change.  A class operation reads and
\* writes the _classes of its own node only.
ClassNodes == {1, 2}

\* The class names of one call, in call order: a name may come twice.
NameArgs == SeqsUpTo(ClassNames, MaxNames)

\* The set operation of add_class: _classes.update(class_names).
add_class(cls, class_names) == cls \cup Range(class_names)

\* The set operation of remove_class: _classes.difference_update(class_names).
remove_class(cls, class_names) == cls \ Range(class_names)

\* toggle_class doing what add_class does: update in place of
\* symmetric_difference_update.
toggle_class_update(cls, class_names) == cls \cup Range(class_names)

\* The set operation of toggle_class:
\* _classes.symmetric_difference_update(class_names), which takes the names as
\* a set.
toggle_class(cls, class_names) == (cls \ Range(class_names)) \cup (Range(class_names) \ cls)

\* DOMNode.add_class(*class_names).
AddClass(n, class_names) ==
    /\ classes' = [classes EXCEPT ![n] = add_class(@, class_names)]
    /\ call' = [NoCall EXCEPT !.op = "add_class", !.self = n, !.names = class_names,
                               !.effects = ClassCall(n, add_class(classes[n], class_names))]
    /\ tog' = NoToggle
    /\ UNCHANGED <<id, parent, children, ops, anc, attached, pump, styling>>

\* DOMNode.remove_class(*class_names).
RemoveClass(n, class_names) ==
    /\ classes' = [classes EXCEPT ![n] = remove_class(@, class_names)]
    /\ call' = [NoCall EXCEPT !.op = "remove_class", !.self = n, !.names = class_names,
                               !.effects = ClassCall(n, remove_class(classes[n], class_names))]
    /\ tog' = NoToggle
    /\ UNCHANGED <<id, parent, children, ops, anc, attached, pump, styling>>

\* DOMNode.toggle_class(*class_names).  `tog` follows the calls: a call with
\* the node and names of the call before it is the second of a pair, and any
\* other call starts anew from the class set it finds.
ToggleClass(n, class_names) ==
    /\ classes' = [classes EXCEPT ![n] = toggle_class(@, class_names)]
    /\ call' = [NoCall EXCEPT !.op = "toggle_class", !.self = n, !.names = class_names,
                               !.effects = ClassCall(n, toggle_class(classes[n], class_names))]
    /\ tog' = IF tog.count = 1 /\ tog.node = n /\ tog.names = class_names
              THEN [tog EXCEPT !.count = 2]
              ELSE [node |-> n, names |-> class_names, before |-> classes[n], count |-> 1]
    /\ UNCHANGED <<id, parent, children, ops, anc, attached, pump, styling>>

(* ------------------------------- styles ------------------------------- *)

\* The values a caller assigns: True, False, strings and an int.
BoolVal(b) == [NoValue EXCEPT !.kind = "bool", !.b = b]
StrVal(str) == [NoValue EXCEPT !.kind = "str", !.s = str]
IntVal(i) == [NoValue EXCEPT !.kind = "int", !.i = i]

\* The legal values of the rules `display` and `visibility`.
VALID_DISPLAY == {"block", "none"}
VALID_VISIBILITY == {"visible", "hidden"}

\* The value a Styles object gives for a rule it does not have.
DefaultRules == [p \in StyleProps |-> IF p = "display" THEN "block" ELSE IF p = "visibility" THEN "visible" ELSE IF p = "text_style" THEN "none" ELSE "default"]

\* `value in VALID`: a member of a set of strings is a string equal to one of
\* them.
In(value, valid) == value.kind = "str" /\ value.s \in valid

\* Reading a rule through node.styles: the inline rule when the node has it,
\* then the rule of the cascade, then the default.
RenderStyles_get(n, p) ==
    IF inline_styles[n][p] # Unset THEN inline_styles[n][p]
    ELSE IF css_styles[n][p] # Unset THEN css_styles[n][p]
    ELSE DefaultRules[p]

\* Assigning a rule through node.styles: the rule is set on the inline styles.
RenderStyles_set(inline, n, p, value) == [inline EXCEPT ![n][p] = value]

\* The branches of a setter with the validation left out: a value that is not
\* a bool is stored as it is.
SetterUnchecked(new_val, valid, on, off) ==
    IF new_val.kind = "bool" THEN [result |-> "ok", store |-> IF new_val.b THEN on ELSE off]
    ELSE [result |-> "ok", store |-> IF new_val.kind = "str" THEN new_val.s ELSE "1"]

\* The branches of the setters of `display` and `visible`: a bool stands for
\* one of two strings, a legal string is stored, anything else raises
\* StyleValueError.
Setter(new_val, valid, on, off) ==
    IF new_val.kind = "bool" THEN [result |-> "ok", store |-> IF new_val.b THEN on ELSE off]
    ELSE IF In(new_val, valid) THEN [result |-> "ok", store |-> new_val.s]
    ELSE [result |-> "StyleValueError", store |-> Unset]

\* The getter of `display` reading the inline styles alone.
display_inline(n) == inline_styles[n]["display"] # "none"

\* The getter of `display`.
display(n) == RenderStyles_get(n, "display") # "none"

\* The getter of `visible`.
visible(n) == RenderStyles_get(n, "visibility") # "hidden"

\* node.display = new_val.  `flip` follows the assignments: False starts a
\* run from the display value it finds, and True right after it on the same
\* node ends the run.
SetDisplay(n, new_val) ==
    /\ LET r == Setter(new_val, VALID_DISPLAY, "block", "none")
       IN  /\ inline_styles' = IF r.result = "ok" THEN RenderStyles_set(inline_styles, n, "display", r.store) ELSE inline_styles
           /\ call' = [NoCall EXCEPT !.op = "set_display", !.self = n, !.val = new_val, !.result = r.result]
    /\ flip' = IF new_val = BoolVal(FALSE) THEN [node |-> n, before |-> RenderStyles_get(n, "display"), count |-> 1]
               ELSE IF new_val = BoolVal(TRUE) /\ flip.count = 1 /\ flip.node = n THEN [flip EXCEPT !.count = 2]
               ELSE NoFlip
    /\ UNCHANGED <<id, parent, children, classes, ops, anc, tog, attached, pump, css_styles>>

\* node.visible = new_value.
SetVisible(n, new_value) ==
    /\ LET r == Setter(new_value, VALID_VISIBILITY, "visible", "hidden")
       IN  /\ inline_styles' = IF r.result = "ok" THEN RenderStyles_set(inline_styles, n, "visibility", r.store) ELSE inline_styles
           /\ call' = [NoCall EXCEPT !.op = "set_visible", !.self = n, !.val = new_value, !.result = r.result]
    /\ flip' = NoFlip
    /\ UNCHANGED <<id, parent, children, classes, ops, anc, tog, attached, pump, css_styles>>

\* A caller reads node.display.
GetDisplay(n) ==
    /\ call' = [NoCall EXCEPT !.op = "display", !.self = n, !.flag = display(n)]
    /\ flip' = NoFlip
    /\ UNCHANGED <<id, parent, children, classes, ops, anc, tog, attached, pump, css_styles, inline_styles>>

\* A caller reads node.visible.
GetVisible(n) ==
    /\ call' = [NoCall EXCEPT !.op = "visible", !.self = n, !.flag = visible(n)]
    /\ flip' = NoFlip
    /\ UNCHANGED <<id, parent, children, classes, ops, anc, tog, attached, pump, css_styles, inline_styles>>

\* reset_styles clearing the cascade rules of the node alone.
reset_styles_self_only(self) == [css |-> [css_styles EXCEPT ![self] = NoRules], inline |-> inline_styles, out |-> <<self>>]

\* DOMNode.reset_styles: for every node that self.walk_children() yields,
\* self first, node._css_styles.reset(), which leaves the Styles object without
\* rules.  (The nodes are plain DOMNodes: the branch for Widgets does not
\* apply.)
reset_styles(self) ==
    LET walk == walk_children(self, TRUE)
    IN  [css |-> [m \in Nodes |-> IF m \in Range(walk.out) THEN NoRules ELSE css_styles[m]],
         inline |-> inline_styles,
         out |-> walk.out]

\* A caller calls node.reset_styles().  The call keeps the nodes it went
\* over (out) and whether one of them had cascade rules (flag).
ResetStyles(n) ==
    /\ anc.pc = "idle"
    /\ walk_children(n, TRUE).done
    /\ LET r == reset_styles(n)
       IN  /\ css_styles' = r.css
           /\ inline_styles' = r.inline
           /\ call' = [NoCall EXCEPT !.op = "reset_styles", !.self = n, !.out = r.out,
                                     !.flag = \E m \in Range(r.out) : m # n /\ css_styles[m] # NoRules]
    /\ flip' = NoFlip
    /\ UNCHANGED <<id, parent, children, classes, ops, anc, tog, attached, pump>>

(* ------------------------------ set_styles ---------------------------- *)

\* One declaration of a declaration text: `name: value`.
Decl(name, value) == [name |-> name, value |-> value]

\* key.replace('_', '-'): the name of a keyword argument as a declaration
\* name.
Hyphenate(key) == IF key = "text_style" THEN "text-style" ELSE key

\* The rule a declaration name stands for.
RuleOf(name) == IF name = "text-style" THEN "text_style" ELSE name

\* The values a declaration of a rule may have.
LegalValues(rule) ==
    IF rule = "display" THEN VALID_DISPLAY
    ELSE IF rule = "visibility" THEN VALID_VISIBILITY
    ELSE IF rule = "text_style" THEN {"none", "bold"}
    ELSE {}

\* Whether the parser takes a declaration: its name is that of a rule, and
\* its value is one the rule may have.
Parses(decl) == RuleOf(decl.name) \in StyleProps /\ decl.name # "text_style" /\ decl.value \in LegalValues(RuleOf(decl.name))

\* The rules of a list of declarations that all parse: each declaration sets
\* its rule, a later one over an earlier one.
RECURSIVE RulesOf(_, _)
RulesOf(decls, rules) ==
    IF decls = <<>> THEN rules
    ELSE RulesOf(Tail(decls), [rules EXCEPT ![RuleOf(Head(decls).name)] = Head(decls).value])

\* parse_declarations(css, path): the Styles of the declarations, or a
\* DeclarationError when one of them does not parse.
parse_declarations(decls) ==
    IF \E i \in 1..Len(decls) : ~Parses(decls[i])
    THEN [result |-> "DeclarationError", rules |-> NoRules]
    ELSE [result |-> "ok", rules |-> RulesOf(decls, NoRules)]

\* node.styles.merge(other): the rules of `other` are set on the inline
\* styles, and the rules it does not have stay.
RenderStyles_merge(inline, n, other) == [inline EXCEPT ![n] = [p \in StyleProps |-> IF other[p] # Unset THEN other[p] ELSE @[p]]]

\* The declaration text of set_styles: the declarations of `css`, then one
\* declaration for each keyword argument.
apply_css(css, styles) == css \o [i \in 1..Len(styles) |-> Decl(Hyphenate(styles[i][1]), styles[i][2])]

\* The longest head of a list of declarations that parses.
RECURSIVE ParsedHead(_)
ParsedHead(decls) == IF decls = <<>> \/ ~Parses(Head(decls)) THEN <<>> ELSE <<Head(decls)>> \o ParsedHead(Tail(decls))

\* set_styles merging declaration by declaration, up to the first that does
\* not parse.
set_styles_each(n, css, styles) ==
    LET decls == apply_css(css, styles)
        new_styles == parse_declarations(decls)
    IN  IF new_styles.result = "ok"
        THEN [result |-> "ok", inline |-> RenderStyles_merge(inline_styles, n, new_styles.rules),
              effects |-> <<Effect("refresh", "none", n, classes[n])>>]
        ELSE [result |-> new_styles.result, inline |-> RenderStyles_merge(inline_styles, n, RulesOf(ParsedHead(decls), NoRules)),
              effects |-> <<>>]

\* DOMNode.set_styles(css, **styles): the text is parsed, the parsed Styles
\* are merged into node.styles, and self.refresh() is called; a parse error
\* ends the call at the parse.
set_styles(n, css, styles) ==
    LET new_styles == parse_declarations(apply_css(css, styles))
    IN  IF new_styles.result = "ok"
        THEN [result |-> "ok", inline |-> RenderStyles_merge(inline_styles, n, new_styles.rules),
              effects |-> <<Effect("refresh", "none", n, classes[n])>>]
        ELSE [result |-> new_styles.result, inline |-> inline_styles, effects |-> <<>>]

\* A caller calls node.set_styles(css, **styles).  The call keeps its
\* declaration text in `out`.
SetStyles(n, css, styles) ==
    /\ LET r == set_styles(n, css, styles)
       IN  /\ inline_styles' = r.inline
           /\ call' = [NoCall EXCEPT !.op = "set_styles", !.self = n, !.result = r.result,
                                     !.out = apply_css(css, styles), !.effects = r.effects]
    /\ flip' = NoFlip
    /\ ops' = ops + 1
    /\ UNCHANGED <<id, parent, children, classes, anc, tog, attached, pump, css_styles>>

(* ------------------------------- Button ------------------------------- *)

\* Button.ACTIVE_EFFECT_DURATION, in tenths of a second.
ACTIVE_EFFECT_DURATION == 3

\* The class of a button that has just been pressed.
Active == "-active"

\* The nodes that are Buttons.
Buttons == {NumNodes}

\* Button.Pressed declared with bubble=False.
PressedNoBubble(button, k) == [type |-> "Button.Pressed", bubble |-> FALSE, control |-> button, names |-> <<>>, press |-> k]

\* Button.Pressed(button): a message declared with bubble=True, whose
\* `control` is the button.  `press` tells the messages of different presses
\* apart.
Pressed(button, k) == [type |-> "Button.Pressed", bubble |-> TRUE, control |-> button, names |-> <<>>, press |-> k]

\* The message of a timer that has expired: it does not bubble, and it
\* carries the callback of the timer, partial(self.remove_class, *names).
TimerMessage(timer) == [type |-> "Timer", bubble |-> FALSE, control |-> timer.node, names |-> timer.names, press |-> timer.press]

\* self.post_message(message): the message joins the queue of the node.
post_message(queues, n, message) == [queues EXCEPT ![n] = Append(@, message)]

\* self.set_timer(delay, callback): the timer expires after the timers that
\* are running with a delay that is not longer, and before the others.
set_timer(running, timer) ==
    LET before == {i \in 1..Len(running) : running[i].delay <= timer.delay}
        at == IF before = {} THEN 0 ELSE CHOOSE i \in before : \A j \in before : j <= i
    IN  SubSeq(running, 1, at) \o <<timer>> \o SubSeq(running, at + 1, Len(running))

\* _start_active_affect adding the class and setting no timer.
start_active_affect_no_timer(self) ==
    [classes |-> [classes EXCEPT ![self] = add_class(@, <<Active>>)],
     timers |-> timers,
     effects |-> ClassCall(self, add_class(classes[self], <<Active>>))]

\* _start_active_affect toggling the class in place of adding it.
start_active_affect_toggle(self) ==
    [classes |-> [classes EXCEPT ![self] = toggle_class(@, <<Active>>)],
     timers |-> set_timer(timers, [node |-> self, delay |-> ACTIVE_EFFECT_DURATION, names |-> <<Active>>, press |-> presses + 1]),
     effects |-> ClassCall(self, toggle_class(classes[self], <<Active>>))]

\* Button._start_active_affect: self.add_class("-active"), then
\* self.set_timer(ACTIVE_EFFECT_DURATION, partial(self.remove_class, "-active")).
start_active_affect(self) ==
    [classes |-> [classes EXCEPT ![self] = add_class(@, <<Active>>)],
     timers |-> set_timer(timers, [node |-> self, delay |-> ACTIVE_EFFECT_DURATION, names |-> <<Active>>, press |-> presses + 1]),
     effects |-> ClassCall(self, add_class(classes[self], <<Active>>))]

\* Button.press: nothing when the button is disabled or not displayed;
\* otherwise _start_active_affect() and then
\* self.post_message(Button.Pressed(self)).
press(self) ==
    IF disabled[self] \/ ~display(self)
    THEN [pressed |-> FALSE, classes |-> classes, timers |-> timers, queue |-> queue, effects |-> <<>>]
    ELSE LET affect == start_active_affect(self)
         IN  [pressed |-> TRUE, classes |-> affect.classes, timers |-> affect.timers,
              queue |-> post_message(queue, self, Pressed(self, presses + 1)),
              effects |-> affect.effects \o <<Effect("post_message", "none", self, affect.classes[self])>>]

\* A caller calls button.press().
Press(b) ==
    /\ LET r == press(b)
       IN  /\ classes' = r.classes
           /\ timers' = r.timers
           /\ queue' = r.queue
           /\ presses' = IF r.pressed THEN presses + 1 ELSE presses
           /\ call' = [NoCall EXCEPT !.op = "press", !.self = b, !.flag = r.pressed, !.effects = r.effects]
    /\ UNCHANGED <<id, parent, children, ops, anc, tog, attached, disabled, delivered, stopped, variant, styling>>

\* The timer that expires first expires: its message is posted to the queue
\* of the node that set it.
TimerExpires ==
    /\ timers # <<>>
    /\ queue' = post_message(queue, Head(timers).node, TimerMessage(Head(timers)))
    /\ timers' = Tail(timers)
    /\ call' = [NoCall EXCEPT !.op = "timer", !.self = Head(timers).node]
    /\ UNCHANGED <<id, parent, children, classes, ops, anc, tog, attached, disabled, delivered, stopped, presses, variant, styling>>

\* Button.action_press: self.press().
action_press(self) == press(self)

\* A key binding runs the action `press` of the button.
ActionPress(b) ==
    /\ LET r == action_press(b)
       IN  /\ classes' = r.classes
           /\ timers' = r.timers
           /\ queue' = r.queue
           /\ presses' = IF r.pressed THEN presses + 1 ELSE presses
           /\ call' = [NoCall EXCEPT !.op = "action_press", !.self = b, !.flag = r.pressed, !.effects = r.effects]
    /\ UNCHANGED <<id, parent, children, ops, anc, tog, attached, disabled, delivered, stopped, variant, styling>>

\* events.Click: the message of a mouse click; it bubbles.
ClickMessage(button) == [type |-> "Click", bubble |-> TRUE, control |-> button, names |-> <<>>, press |-> 0]

\* The screen posts the message of a click on a button to the button.
Click(b) ==
    /\ queue' = post_message(queue, b, ClickMessage(b))
    /\ ops' = ops + 1
    /\ call' = [NoCall EXCEPT !.op = "click", !.self = b]
    /\ UNCHANGED <<id, parent, children, classes, anc, tog, attached, disabled, timers, delivered, stopped, presses, variant, styling>>

\* _on_click without event.stop().
on_click_no_stop(self, rest) ==
    LET pressed == press(self)
    IN  [stop |-> FALSE, pressed |-> pressed.pressed, classes |-> pressed.classes, timers |-> pressed.timers,
         queue |-> IF pressed.pressed THEN post_message(rest, self, Pressed(self, presses + 1)) ELSE rest,
         effects |-> pressed.effects]

\* Button._on_click(event): event.stop(), then self.press().  `rest` is the
\* queues once the message of the click has been taken from the queue of the
\* button: what press posts joins them.
on_click(self, rest) ==
    LET pressed == press(self)
    IN  [stop |-> TRUE, pressed |-> pressed.pressed, classes |-> pressed.classes, timers |-> pressed.timers,
         queue |-> IF pressed.pressed THEN post_message(rest, self, Pressed(self, presses + 1)) ELSE rest,
         effects |-> <<Effect("event.stop", "none", self, classes[self])>> \o pressed.effects]

\* One round of the processing loop of node n: the first message of its
\* queue is taken and dispatched.  The message of a timer runs the callback of
\* the timer.  The message of a click goes to _on_click of a Button, and to no
\* handler on another node.  A Button.Pressed message goes to the handler of
\* the node, which stops it or not (stop).  A message that bubbles and was not
\* stopped is then posted to the parent of the node, when it has one.
Dispatch(n, stop) ==
    /\ queue[n] # <<>>
    /\ LET message == Head(queue[n])
           rest == [queue EXCEPT ![n] = Tail(@)]
           forwarded(queues, stopping) == IF message.bubble /\ ~stopping /\ parent[n] # NoNode
                                          THEN post_message(queues, parent[n], message)
                                          ELSE queues
       IN  IF message.type = "Timer"
           THEN /\ ~stop
                /\ delivered' = delivered
                /\ classes' = [classes EXCEPT ![n] = remove_class(@, message.names)]
                /\ call' = [NoCall EXCEPT !.op = "on_timer", !.self = n, !.names = message.names,
                                          !.flag = (remove_class(classes[n], message.names) # classes[n]),
                                          !.effects = ClassCall(n, remove_class(classes[n], message.names))]
                /\ queue' = rest
                /\ UNCHANGED <<stopped, timers, presses>>
           ELSE IF message.type = "Click"
           THEN /\ ~stop
                /\ LET r == IF n \in Buttons THEN on_click(n, rest)
                            ELSE [stop |-> FALSE, pressed |-> FALSE, classes |-> classes, timers |-> timers, queue |-> rest, effects |-> <<>>]
                   IN  /\ classes' = r.classes
                       /\ timers' = r.timers
                       /\ presses' = IF r.pressed THEN presses + 1 ELSE presses
                       /\ queue' = forwarded(r.queue, r.stop)
                       /\ call' = [NoCall EXCEPT !.op = "on_click", !.self = n, !.flag = r.pressed, !.effects = r.effects]
                /\ UNCHANGED <<delivered, stopped>>
           ELSE /\ classes' = classes
                /\ delivered' = [delivered EXCEPT ![message.press] = Append(@, n)]
                /\ call' = [NoCall EXCEPT !.op = "on_button_pressed", !.self = n, !.flag = stop]
                /\ stopped' = IF stop THEN stopped \cup {message.press} ELSE stopped
                /\ queue' = forwarded(rest, stop)
                /\ UNCHANGED <<timers, presses>>
    /\ UNCHANGED <<id, parent, children, ops, anc, tog, attached, disabled, variant, styling>>

(* --------------------------- rich_text_style -------------------------- *)

\* Color(0, 0, 0, 0) and Color(255, 255, 255, 0), the colors rich_text_style
\* starts from.
TransparentBlack == "Color(0, 0, 0, 0)"
TransparentWhite == "Color(255, 255, 255, 0)"

\* node.styles.has_rule(p): one of the two layers has the rule.
has_rule(n, p) == inline_styles[n][p] # Unset \/ css_styles[n][p] # Unset

\* background + color: the color laid over the background.  The result is
\* kept as the list of the colors, the lowest first.
Blend(background, color) == Append(background, color)

\* The loop of rich_text_style over a list of nodes: the background of a
\* node that has the rule is laid over the background so far, the color of a
\* node that has the rule takes the place of the color so far, and the text
\* style of every node is added to the style so far.
RECURSIVE RichLoop(_, _, _, _)
RichLoop(nodes, background, color, style) ==
    IF nodes = <<>> THEN [bgcolor |-> background, color |-> color, style |-> style]
    ELSE LET node == Head(nodes)
         IN  RichLoop(Tail(nodes),
                      IF has_rule(node, "background") THEN Blend(background, RenderStyles_get(node, "background")) ELSE background,
                      IF has_rule(node, "color") THEN RenderStyles_get(node, "color") ELSE color,
                      Append(style, RenderStyles_get(node, "text_style")))

\* rich_text_style looping over self.ancestors as it is, the node first.
rich_text_style_self_first(self) == RichLoop(ancestors(self).nodes, <<TransparentBlack>>, TransparentWhite, <<>>)

\* DOMNode.rich_text_style: the loop over reversed(self.ancestors), from the
\* root to the node.
rich_text_style(self) == RichLoop(Reverse(ancestors(self).nodes), <<TransparentBlack>>, TransparentWhite, <<>>)

\* A caller reads node.rich_text_style.
RichTextStyle(n) ==
    /\ anc.pc = "idle"
    /\ ancestors(n).done
    /\ call' = [NoCall EXCEPT !.op = "rich_text_style", !.self = n, !.style = rich_text_style(n)]
    /\ UNCHANGED <<id, parent, children, classes, ops, anc, tog, attached, pump, styling>>

(* --------------------------- Button.variant --------------------------- *)

\* _VALID_BUTTON_VARIANTS.
VALID_BUTTON_VARIANTS == {"default", "primary", "success", "warning", "error"}

\* f"-{variant}": the class that stands for a variant.
VariantClass(v) ==
    CASE v = "default" -> "-default"
      [] v = "primary" -> "-primary"
      [] v = "success" -> "-success"
      [] v = "warning" -> "-warning"
      [] v = "error" -> "-error"
      [] OTHER -> "-bogus"

\* validate_variant without its test: every value is returned.
validate_variant_any(v) == [result |-> "ok", value |-> v]

\* Button.validate_variant: InvalidButtonVariant for a value that is not in
\* _VALID_BUTTON_VARIANTS, the value otherwise.
validate_variant(v) ==
    IF v \notin VALID_BUTTON_VARIANTS
    THEN [result |-> "InvalidButtonVariant", value |-> v]
    ELSE [result |-> "ok", value |-> v]

\* watch_variant adding the class of the new variant before it removes the
\* class of the old one.
watch_variant_add_first(self, old_variant, v) ==
    LET added == add_class(classes[self], <<VariantClass(v)>>)
        removed == remove_class(added, <<VariantClass(old_variant)>>)
    IN  [classes |-> removed, effects |-> ClassCall(self, added) \o ClassCall(self, removed)]

\* Button.watch_variant(old_variant, variant):
\* self.remove_class(f"-{old_variant}"), then self.add_class(f"-{variant}").
watch_variant(self, old_variant, v) ==
    LET removed == remove_class(classes[self], <<VariantClass(old_variant)>>)
        added == add_class(removed, <<VariantClass(v)>>)
    IN  [classes |-> added, effects |-> ClassCall(self, removed) \o ClassCall(self, added)]

\* Assigning to the reactive attribute `variant`: the validator runs on the
\* value; a value equal to the current one ends the assignment; otherwise the
\* value is stored and then the watcher is called with the old and the new
\* value.
reactive_set_variant(self, v) ==
    LET validated == validate_variant(v)
    IN  IF validated.result # "ok"
        THEN [result |-> validated.result, variant |-> variant[self], classes |-> classes[self], effects |-> <<>>]
        ELSE IF validated.value = variant[self]
        THEN [result |-> "ok", variant |-> variant[self], classes |-> classes[self], effects |-> <<>>]
        ELSE LET watched == watch_variant(self, variant[self], validated.value)
             IN  [result |-> "ok", variant |-> validated.value, classes |-> watched.classes,
                  effects |-> <<Effect("watch_variant", "none", self, classes[self])>> \o watched.effects]

\* A caller assigns button.variant = v.
SetVariant(b, v) ==
    /\ LET r == reactive_set_variant(b, v)
       IN  /\ variant' = [variant EXCEPT ![b] = r.variant]
           /\ classes' = [classes EXCEPT ![b] = r.classes]
           /\ call' = [NoCall EXCEPT !.op = "set_variant", !.self = b, !.key = v, !.result = r.result, !.effects = r.effects]
    /\ UNCHANGED <<id, parent, children, ops, anc, tog, attached, disabled, timers, queue, delivered, stopped, presses, styling>>

(* --------------------------- specifications --------------------------- *)

\* Arbitrary callers: any id assignment and any add_child or add_children
\* call, on any nodes, in any order.
Build ==
    \/ \E n \in ArgNodes, new_id \in Ids : ops < MaxOps /\ SetId(n, new_id)
    \/ \E n \in ArgNodes, c \in ArgNodes : ops < MaxOps /\ AddChild(n, c)
    \/ \E n \in ArgNodes, nodes \in SeqsUpTo(ArgNodes, MaxOps - ops), named \in NamedArgs(MaxOps - ops) :
          /\ Len(nodes) + Len(named) >= 1
          /\ ops + Len(nodes) + Len(named) <= MaxOps
          /\ AddChildren(n, nodes, named)

Next == Build

Spec == Init /\ [][Next]_vars

\* Arbitrary callers that also read `ancestors`.
NextAnc ==
    \/ Build
    \/ \E n \in ArgNodes : AncestorsCall(n)
    \/ AncestorsLoop

SpecAnc == Init /\ [][NextAnc]_vars

\* Arbitrary callers that build a structure and then look a child up by id
\* in it.
NextGet ==
    \/ call.op # "get_child" /\ Build
    \/ \E n \in ArgNodes, key \in Ids : call.op # "get_child" /\ GetChild(n, key)

SpecGet == Init /\ [][NextGet]_vars

\* Callers that build trees: add_child is only called with a node that has no
\* parent, on a node that is not the node itself or one of its descendants.
\* They walk the trees and read the paths.
NextTrees ==
    \/ \E n \in Nodes, c \in Nodes :
          /\ parent[c] = NoNode
          /\ c \notin Range(ancestors(n).nodes)
          /\ AddChild(n, c)
    \/ \E n \in Nodes, with_self \in BOOLEAN : WalkChildren(n, with_self)
    \/ \E n \in Nodes : CssPathNodes(n)

SpecTrees == Init /\ [][NextTrees]_vars

\* Nodes constructed with a `classes` argument (the nodes of ClassNodes with
\* any, the others with none), with or without an application attached, and
\* callers that change the classes.
InitClasses ==
    /\ id = [n \in Nodes |-> NoId]
    /\ parent = [n \in Nodes |-> NoNode]
    /\ children = [n \in Nodes |-> <<>>]
    /\ classes \in {f \in [Nodes -> SUBSET ClassNames] : \A n \in Nodes \ ClassNodes : f[n] = {}}
    /\ call = NoCall
    /\ ops = 0
    /\ anc = AncIdle
    /\ tog = NoToggle
    /\ attached \in BOOLEAN
    /\ InitStyling
    /\ InitPump

NextClasses ==
    \/ \E n \in ClassNodes, class_names \in NameArgs : AddClass(n, class_names)
    \/ \E n \in ClassNodes, class_names \in NameArgs : RemoveClass(n, class_names)
    \/ \E n \in ClassNodes, class_names \in NameArgs : ToggleClass(n, class_names)

SpecClasses == InitClasses /\ [][NextClasses]_vars

\* The nodes whose styles the callers read and set.
StyleNodes == {1, 2}

\* The rules the cascade has left on a node.
CssLayers == {NoRules, [NoRules EXCEPT !["display"] = "none"], [NoRules EXCEPT !["display"] = "block", !["visibility"] = "hidden"]}

\* What callers assign to `display` and `visible`.
Assigned == {BoolVal(TRUE), BoolVal(FALSE), StrVal("block"), StrVal("none"), StrVal("visible"), StrVal("hidden"), StrVal("bogus"), IntVal(1)}

\* Nodes after a cascade, which has left rules on the nodes of StyleNodes, and
\* callers that assign and read `display` and `visible`.
InitStyles ==
    /\ id = [n \in Nodes |-> NoId]
    /\ parent = [n \in Nodes |-> NoNode]
    /\ children = [n \in Nodes |-> <<>>]
    /\ classes = [n \in Nodes |-> {}]
    /\ call = NoCall
    /\ ops = 0
    /\ anc = AncIdle
    /\ tog = NoToggle
    /\ attached = FALSE
    /\ css_styles \in {f \in [Nodes -> CssLayers] : \A n \in Nodes \ StyleNodes : f[n] = NoRules}
    /\ inline_styles = [n \in Nodes |-> NoRules]
    /\ flip = NoFlip
    /\ InitPump

NextStyles ==
    \/ \E n \in StyleNodes, new_val \in Assigned : SetDisplay(n, new_val)
    \/ \E n \in StyleNodes, new_value \in Assigned : SetVisible(n, new_value)
    \/ \E n \in StyleNodes : GetDisplay(n)
    \/ \E n \in StyleNodes : GetVisible(n)

SpecStyles == InitStyles /\ [][NextStyles]_vars

\* The members of a set of nodes as a list, in ascending order.
SortedSeq(S) == CHOOSE list \in [1..Cardinality(S) -> S] : \A i, j \in 1..Cardinality(S) : i < j => list[i] < list[j]

\* Trees that add_child calls have built: every node but the first has been
\* added to a node constructed before it, or to none.
InitForest ==
    /\ id = [n \in Nodes |-> NoId]
    /\ parent \in {f \in [Nodes -> Nodes \cup {NoNode}] : \A n \in Nodes : f[n] < n}
    /\ children = [n \in Nodes |-> SortedSeq({m \in Nodes : parent[m] = n})]

\* The rules the cascade has left on a node of a tree.
TreeCssLayers == {NoRules, [NoRules EXCEPT !["display"] = "none", !["visibility"] = "hidden"]}

\* Trees after a cascade, and callers that assign True and False to `display`
\* of some nodes and reset the styles of any node.
InitReset ==
    /\ InitForest
    /\ classes = [n \in Nodes |-> {}]
    /\ call = NoCall
    /\ ops = 0
    /\ anc = AncIdle
    /\ tog = NoToggle
    /\ attached = FALSE
    /\ css_styles \in [Nodes -> TreeCssLayers]
    /\ inline_styles = [n \in Nodes |-> NoRules]
    /\ flip = NoFlip
    /\ InitPump

NextReset ==
    \/ \E n \in StyleNodes, b \in BOOLEAN : SetDisplay(n, BoolVal(b))
    \/ \E n \in Nodes : ResetStyles(n)

SpecReset == InitReset /\ [][NextReset]_vars

\* The `css` arguments of the callers, as lists of declarations: none, one
\* that parses, two that parse, and one that parses before one that does not.
CssArgs == {<<>>, <<Decl("display", "none")>>, <<Decl("visibility", "hidden"), Decl("visibility", "visible")>>, <<Decl("display", "none"), Decl("display", "bogus")>>}

\* The keyword arguments of the callers, in call order.
KwArgs == {<<>>, <<<<"text_style", "bold">>>>, <<<<"display", "block">>, <<"visibility", "hidden">>>>, <<<<"visibility", "bogus">>>>}

\* Nodes after a cascade, and callers that call set_styles, MaxOps + 1 times
\* at most.
NextSetStyles == \E n \in StyleNodes, css \in CssArgs, styles \in KwArgs : ops <= MaxOps /\ SetStyles(n, css, styles)

SpecSetStyles == InitStyles /\ [][NextSetStyles]_vars

\* A chain that add_child calls have built: from some node on, every node
\* has been added to the node constructed just before it.
InitChains ==
    /\ id = [n \in Nodes |-> NoId]
    /\ \E root \in Nodes : parent = [n \in Nodes |-> IF n > root THEN n - 1 ELSE NoNode]
    /\ children = [n \in Nodes |-> SortedSeq({m \in Nodes : parent[m] = n})]

\* A Button at the end of a chain, under an application: it was constructed
\* with or without a class and disabled or not, and it is displayed or not.
InitButton ==
    /\ InitChains
    /\ classes \in {f \in [Nodes -> SUBSET {"x"}] : \A n \in Nodes \ Buttons : f[n] = {}}
    /\ call = NoCall
    /\ ops = 0
    /\ anc = AncIdle
    /\ tog = NoToggle
    /\ attached = TRUE
    /\ css_styles = [n \in Nodes |-> NoRules]
    /\ inline_styles \in {f \in [Nodes -> {NoRules, [NoRules EXCEPT !["display"] = "none"]}] : \A n \in Nodes \ Buttons : f[n] = NoRules}
    /\ flip = NoFlip
    /\ disabled \in {f \in [Nodes -> BOOLEAN] : \A n \in Nodes \ Buttons : ~f[n]}
    /\ timers = <<>>
    /\ queue = [n \in Nodes |-> <<>>]
    /\ delivered = [k \in 1..MaxPress |-> <<>>]
    /\ stopped = {}
    /\ presses = 0
    /\ variant = [n \in Nodes |-> "default"]

\* Callers press the button, its timers expire, and the button processes its
\* queue.
NextButton ==
    \/ \E b \in Buttons : presses < MaxPress /\ Press(b)
    \/ TimerExpires
    \/ \E b \in Buttons, stop \in BOOLEAN : Dispatch(b, stop)

SpecButton == InitButton /\ [][NextButton]_vars

\* The button stays mounted: time passes, so that a timer that is running
\* expires, and the processing loop of the button runs, so that a message that
\* waits in its queue is processed.
SpecButtonFair ==
    /\ InitButton
    /\ [][NextButton]_vars
    /\ WF_vars(TimerExpires)
    /\ WF_vars(\E b \in Buttons, stop \in BOOLEAN : Dispatch(b, stop))

\* Callers press the button, and every node processes its queue; the presses
\* are over before a timer expires.
NextBubble ==
    \/ \E b \in Buttons : presses < MaxPress /\ Press(b)
    \/ \E n \in Nodes, stop \in BOOLEAN : Dispatch(n, stop)

SpecBubble == InitButton /\ [][NextBubble]_vars

\* The rules of color a cascade has left on a node of a tree.
ColorLayers == {NoRules, [NoRules EXCEPT !["color"] = "red"], [NoRules EXCEPT !["color"] = "blue", !["background"] = "red"]}

\* The inline rules of color of the first node.
InlineColorLayers == {NoRules, [NoRules EXCEPT !["background"] = "green"]}

\* Trees after a cascade, and callers that read rich_text_style.
InitRich ==
    /\ InitForest
    /\ classes = [n \in Nodes |-> {}]
    /\ call = NoCall
    /\ ops = 0
    /\ anc = AncIdle
    /\ tog = NoToggle
    /\ attached = FALSE
    /\ css_styles \in [Nodes -> ColorLayers]
    /\ inline_styles \in {f \in [Nodes -> InlineColorLayers] : \A n \in Nodes \ {1} : f[n] = NoRules}
    /\ flip = NoFlip
    /\ InitPump

NextRich == \E n \in Nodes : RichTextStyle(n)

SpecRich == InitRich /\ [][NextRich]_vars

\* What callers assign to `variant`.
VariantArgs == VALID_BUTTON_VARIANTS \cup {"bogus"}

\* A Button constructed with the default variant, with or without a class,
\* with or without an application, and callers that assign to `variant`.
InitVariant ==
    /\ id = [n \in Nodes |-> NoId]
    /\ parent = [n \in Nodes |-> NoNode]
    /\ children = [n \in Nodes |-> <<>>]
    /\ classes \in {f \in [Nodes -> SUBSET {"x"}] : \A n \in Nodes \ Buttons : f[n] = {}}
    /\ call = NoCall
    /\ ops = 0
    /\ anc = AncIdle
    /\ tog = NoToggle
    /\ attached \in BOOLEAN
    /\ InitStyling
    /\ InitPump

NextVariant == \E b \in Buttons, v \in VariantArgs : SetVariant(b, v)

SpecVariant == InitVariant /\ [][NextVariant]_vars

\* The clicks that wait in the queue of a node.
WaitingClicks(n) == Cardinality({i \in 1..Len(queue[n]) : queue[n][i].type = "Click"})

\* Callers, keys and the mouse press the button: directly, by its action and
\* by MaxOps clicks at most; the button processes its queue; the presses are
\* over before a timer expires.
NextClick ==
    \/ \E b \in Buttons : presses + WaitingClicks(b) < MaxPress /\ Press(b)
    \/ \E b \in Buttons : presses + WaitingClicks(b) < MaxPress /\ ActionPress(b)
    \/ \E b \in Buttons : ops < MaxOps /\ presses + WaitingClicks(b) < MaxPress /\ Click(b)
    \/ \E b \in Buttons, stop \in BOOLEAN : Dispatch(b, stop)

SpecClick == InitButton /\ [][NextClick]_vars

(* ------------------------------ properties ---------------------------- *)

\* C1: once the id of a node is not None, no call changes it, and an
\* assignment to it fails with ValueError.
C1_IdSetOnce ==
    [][/\ \A n \in Nodes : id[n] # NoId => id'[n] = id[n]
       /\ (call'.op = "set_id" /\ id[call'.self] # NoId) => call'.result = "ValueError"]_vars

\* An assignment of another id to a node that has one has failed, and the node
\* has the id it had.
C1_Witness == call.op = "set_id" /\ call.result = "ValueError" /\ id[call.self] \notin {NoId, call.key}

\* C2: every node in the children of a node n has n as its parent.
C2_ChildrenHaveParent == \A n \in Nodes : \A i \in 1..Len(children[n]) : parent[children[n][i]] = n

\* C3: an add_children call that fails with the id setter's ValueError leaves
\* every node's children, id and parent as they were.
C3_FailedAddChildrenChangesNothing ==
    [][(call'.op = "add_children" /\ call'.result = "ValueError") => UNCHANGED tree]_vars

\* C4: a node that has a parent is not added again: no node is in the
\* children of two different nodes.
C4_NoNodeInTwoCollections ==
    \A n, m \in Nodes : \A i \in 1..Len(children[n]), j \in 1..Len(children[m]) :
        children[n][i] = children[m][j] => n = m

\* C5: `ancestors` ends: its loop never comes back to a node it has listed (a
\* loop that does goes round for ever), and the list it returns is the node,
\* then each node's parent, up to a node without a parent.
C5_AncestorsTerminates ==
    /\ anc.pc = "loop" => \A i, j \in 1..Len(anc.nodes) : i # j => anc.nodes[i] # anc.nodes[j]
    /\ call.op = "ancestors" =>
          /\ call.out[1] = call.self
          /\ \A i \in 1..(Len(call.out) - 1) : call.out[i + 1] = parent[call.out[i]]
          /\ parent[call.out[Len(call.out)]] = NoNode

\* The nodes of the tree under n, n first, each node before its children's
\* subtrees and these in children order.
RECURSIVE Preorder(_), PreorderAll(_)
Preorder(n) == <<n>> \o PreorderAll(children[n])
PreorderAll(list) == IF list = <<>> THEN <<>> ELSE Preorder(Head(list)) \o PreorderAll(Tail(list))

\* C6: walk_children(with_self=True) yields the node, then every descendant
\* once, depth first in pre-order: a node before its descendants, siblings in
\* children order with the subtree of one before the next; with_self=False
\* yields the same without the node.
C6_WalkPreorder ==
    call.op = "walk_children" =>
        LET all == Preorder(call.self)
            at(m) == CHOOSE i \in 1..Len(all) : all[i] = m
        IN  /\ call.result = "ok"
            /\ call.out = IF call.flag THEN all ELSE Tail(all)
            /\ all[1] = call.self
            /\ Range(all) = {m \in Nodes : call.self \in Range(ancestors(m).nodes)}
            /\ Len(all) = Cardinality(Range(all))
            /\ \A m \in Range(all) : \A a \in Range(ancestors(m).nodes) \cap Range(all) : at(a) <= at(m)
            /\ \A m \in Range(all) : \A i, j \in 1..Len(children[m]) :
                  i < j => \A d \in Range(Preorder(children[m][i])) : at(d) < at(children[m][j])

\* A walk from a node with two children, the first of which has a child, has
\* run.
C6_Witness ==
    /\ call.op = "walk_children"
    /\ call.flag
    /\ Len(children[call.self]) >= 2
    /\ children[children[call.self][1]] # <<>>
    /\ Len(call.out) = NumNodes

\* C7: css_path_nodes of a node is its `ancestors` list reversed: the same
\* nodes, from the root to the node.
C7_PathIsReversedAncestors ==
    call.op = "css_path_nodes" =>
        LET a == ancestors(call.self)
            n == Len(call.out)
        IN  /\ a.done
            /\ n = Len(a.nodes)
            /\ \A i \in 1..n : call.out[i] = a.nodes[n + 1 - i]
            /\ parent[call.out[1]] = NoNode
            /\ call.out[n] = call.self

\* The path of a node two levels below its root has been read.
C7_Witness == call.op = "css_path_nodes" /\ Len(call.out) >= 3

\* C8: ids are unique; in particular no two children of one node have the
\* same id.
C8_UniqueIds ==
    \A n \in Nodes : \A i, j \in 1..Len(children[n]) :
        (children[n][i] # children[n][j] /\ id[children[n][i]] # NoId) => id[children[n][i]] # id[children[n][j]]

\* C9: get_child(id) returns the first of the node's children whose id is the
\* argument, raises NoMatchingNodesError when none of them has it, and
\* changes nothing.
C9_GetChildImmediate ==
    [][call'.op = "get_child" =>
         /\ UNCHANGED tree
         /\ LET list == children[call'.self]
                hits == {i \in 1..Len(list) : id[list[i]] = call'.key}
            IN  IF hits = {}
                THEN call'.result = "NoMatchingNodesError" /\ call'.ret = NoNode
                ELSE /\ call'.result = "ok"
                     /\ \E i \in hits : call'.ret = list[i] /\ \A j \in hits : i <= j]_vars

\* get_child has raised NoMatchingNodesError for an id that a child of a child
\* has.
C9_Witness ==
    /\ call.op = "get_child"
    /\ call.result = "NoMatchingNodesError"
    /\ \E c \in Range(children[call.self]) : \E g \in Range(children[c]) : id[g] = call.key

\* C10: two toggle_class calls in a row with the same names on a node leave
\* the node with the class set it had before the first.
C10_ToggleTwice == tog.count = 2 => classes[tog.node] = tog.before

\* Two names, one in the class set and one not, have been toggled twice.
C10_Witness ==
    /\ tog.count = 2
    /\ \E i, j \in 1..Len(tog.names) : tog.names[i] \in tog.before /\ tog.names[j] \notin tog.before

\* The calls that change the class set of a node.
ClassOps == {"add_class", "remove_class", "toggle_class"}

\* C11: with no application attached, add_class, remove_class and
\* toggle_class do not raise; the class set of the node becomes its union,
\* difference or symmetric difference with the names given, no other node's
\* class set changes, and neither the style recomputation nor the repaint
\* request is done.
C11_DetachedClassCalls ==
    [][(call'.op \in ClassOps /\ ~attached) =>
         LET n == call'.self
             names == {call'.names[i] : i \in 1..Len(call'.names)}
         IN  /\ call'.result = "ok"
             /\ call'.op = "add_class" => classes'[n] = {c \in ClassNames : c \in classes[n] \/ c \in names}
             /\ call'.op = "remove_class" => classes'[n] = {c \in ClassNames : c \in classes[n] /\ c \notin names}
             /\ call'.op = "toggle_class" => classes'[n] = {c \in ClassNames : (c \in classes[n]) # (c \in names)}
             /\ \A m \in Nodes \ {n} : classes'[m] = classes[m]
             /\ \A i \in 1..Len(call'.effects) : call'.effects[i].do \notin {"stylesheet.update", "refresh"}]_vars

\* With no application attached, names have been toggled on a node that had
\* classes, and the call did the set operation and nothing else.
C11_Witness ==
    /\ ~attached
    /\ call.op = "toggle_class"
    /\ call.names # <<>>
    /\ classes[call.self] # {}
    /\ call.effects = <<Effect("_classes", "none", call.self, classes[call.self])>>

\* C12: with an application attached, a call of add_class, remove_class or
\* toggle_class does three things in this order: the change of the class set,
\* one style recomputation that starts from the application, and one repaint
\* request on the node; the recomputation sees the class set as the call has
\* left it.
C12_AttachedClassCallOrder ==
    (call.op \in ClassOps /\ attached) =>
        /\ Len(call.effects) = 3
        /\ call.effects[1].do = "_classes" /\ call.effects[1].node = call.self
        /\ call.effects[2].do = "stylesheet.update" /\ call.effects[2].root = TheApp
        /\ call.effects[2].seen = classes[call.self]
        /\ call.effects[3].do = "refresh" /\ call.effects[3].node = call.self

\* With an application attached, a call has removed a class from a node, and
\* the recomputation saw the node without it.
C12_Witness ==
    /\ attached
    /\ call.op = "remove_class"
    /\ Len(call.effects) = 3
    /\ \E i \in 1..Len(call.names) : call.names[i] \notin call.effects[2].seen
    /\ classes[call.self] # {}

\* What a rule p of node n reads as, given the rules of the two layers: the
\* inline rule shadows the rule of the cascade, and a rule that neither has
\* reads as its default.
ReadThrough(css, inline, n, p) ==
    IF inline[n][p] # Unset THEN inline[n][p]
    ELSE IF css[n][p] # Unset THEN css[n][p]
    ELSE DefaultRules[p]

\* C13: assigning to `display` or `visible` a value that is neither a bool
\* nor one of the legal strings raises StyleValueError and leaves the rules of
\* both layers of every node as they were; a bool sets display to "block" or
\* "none" and visibility to "visible" or "hidden", and a legal string is
\* stored as given.
C13_SettersValidate ==
    [][call'.op \in {"set_display", "set_visible"} =>
         LET n == call'.self
             v == call'.val
             isDisplay == call'.op = "set_display"
             p == IF isDisplay THEN "display" ELSE "visibility"
             legal == IF isDisplay THEN {"block", "none"} ELSE {"visible", "hidden"}
             on == IF isDisplay THEN "block" ELSE "visible"
             off == IF isDisplay THEN "none" ELSE "hidden"
         IN  IF v.kind = "bool"
             THEN call'.result = "ok" /\ ReadThrough(css_styles', inline_styles', n, p) = (IF v.b THEN on ELSE off)
             ELSE IF v.kind = "str" /\ v.s \in legal
             THEN call'.result = "ok" /\ ReadThrough(css_styles', inline_styles', n, p) = v.s
             ELSE /\ call'.result = "StyleValueError"
                  /\ UNCHANGED <<css_styles, inline_styles>>]_vars

\* A string that is legal for `visible` only has been assigned to `display`
\* of a node with rules, and was refused.
C13_Witness ==
    /\ call.op = "set_display"
    /\ call.val = StrVal("hidden")
    /\ call.result = "StyleValueError"
    /\ inline_styles[call.self] # NoRules
    /\ css_styles[call.self] # NoRules

\* C14: whatever `display` read as before, display = False followed by
\* display = True leaves it reading as "block"; and the getter of `display`
\* returns True exactly when the rule reads as something other than "none".
C14_OffOnIsBlock ==
    /\ flip.count = 2 => ReadThrough(css_styles, inline_styles, flip.node, "display") = "block"
    /\ call.op = "display" => (call.flag <=> ReadThrough(css_styles, inline_styles, call.self, "display") # "none")

\* display = False and then display = True have been assigned on a node whose
\* cascade says display: none, which is what it read as before.
C14_Witness ==
    /\ flip.count = 2
    /\ flip.before = "none"
    /\ css_styles[flip.node]["display"] = "none"
    /\ call.op = "set_display"

\* C15: reset_styles on a node leaves the node and every descendant of it
\* without cascade rules, and leaves as they were the inline rules of every
\* node and the cascade rules of every node outside its subtree; every rule
\* set inline still reads as its inline value afterwards.
C15_ResetKeepsInline ==
    [][call'.op = "reset_styles" =>
         LET subtree == {m \in Nodes : call'.self \in Range(ancestors(m).nodes)}
         IN  /\ \A m \in subtree : \A p \in StyleProps : css_styles'[m][p] = Unset
             /\ \A m \in Nodes \ subtree : css_styles'[m] = css_styles[m]
             /\ inline_styles' = inline_styles
             /\ \A m \in Nodes : \A p \in StyleProps :
                   inline_styles[m][p] # Unset => ReadThrough(css_styles', inline_styles', m, p) = inline_styles[m][p]]_vars

\* The styles of a node with a parent and with descendants that had cascade
\* rules have been reset: the node still has its inline rule, and the parent
\* the rules of the cascade.
C15_Witness ==
    /\ call.op = "reset_styles"
    /\ call.flag
    /\ parent[call.self] # NoNode
    /\ css_styles[parent[call.self]] # NoRules
    /\ inline_styles[call.self] # NoRules
    /\ \A c \in Range(children[call.self]) : css_styles[c] = NoRules

\* C16: set_styles is all or nothing: when a declaration of its text (the css
\* string, then the keyword arguments) does not parse, the call raises, no
\* rule of any node changes and no refresh is asked for; when the text parses,
\* every rule it declares reads as its last declaration says, the other rules
\* stay, and refresh is asked for exactly once.
C16_SetStylesAllOrNothing ==
    [][call'.op = "set_styles" =>
         LET n == call'.self
             decls == call'.out
             declared == {RuleOf(decls[i].name) : i \in 1..Len(decls)}
             last(p) == CHOOSE i \in 1..Len(decls) : RuleOf(decls[i].name) = p /\ \A j \in 1..Len(decls) : RuleOf(decls[j].name) = p => j <= i
             refreshes == {i \in 1..Len(call'.effects) : call'.effects[i].do = "refresh"}
         IN  IF \E i \in 1..Len(decls) : ~Parses(decls[i])
             THEN /\ call'.result # "ok"
                  /\ UNCHANGED <<css_styles, inline_styles>>
                  /\ refreshes = {}
             ELSE /\ call'.result = "ok"
                  /\ \A p \in declared : ReadThrough(css_styles', inline_styles', n, p) = decls[last(p)].value
                  /\ \A p \in StyleProps \ declared : inline_styles'[n][p] = inline_styles[n][p]
                  /\ \A m \in Nodes \ {n} : inline_styles'[m] = inline_styles[m]
                  /\ css_styles' = css_styles
                  /\ Cardinality(refreshes) = 1 /\ call'.effects[Len(call'.effects)].do = "refresh"]_vars

\* set_styles has raised for a text whose first declaration parses and would
\* have changed what `display` reads as.
C16_Witness ==
    /\ call.op = "set_styles"
    /\ call.result = "DeclarationError"
    /\ Len(call.out) >= 2
    /\ Parses(call.out[1])
    /\ ReadThrough(css_styles, inline_styles, call.self, RuleOf(call.out[1].name)) # call.out[1].value

\* C17: a press of an enabled, displayed Button leaves the button with the
\* class -active at once, and the processing of the expired timer leaves it
\* without; neither these two nor any step between them changes another class
\* of the button.
C17_ActiveUntilExpiry ==
    [][\A b \in Buttons :
         /\ (call'.op = "press" /\ call'.self = b /\ ~disabled[b] /\ ReadThrough(css_styles, inline_styles, b, "display") # "none")
               => Active \in classes'[b]
         /\ (call'.op = "on_timer" /\ call'.self = b) => Active \notin classes'[b]
         /\ classes'[b] \ {Active} = classes[b] \ {Active}]_vars

\* A button with another class has been pressed, and its timer has expired and
\* has been processed: the button has the class it had.
C17_Witness ==
    /\ call.op = "on_timer"
    /\ presses = 1
    /\ timers = <<>>
    /\ classes[call.self] = {"x"}

\* C18: after every press of an enabled, displayed Button the button has the
\* class -active for ACTIVE_EFFECT_DURATION: as long as the timer of a press
\* has not expired, the button has the class, also when the press came before
\* the timer of an earlier press expired.
C18_ActiveWhileTimerRuns == \A i \in 1..Len(timers) : Active \in classes[timers[i].node]

\* C19: a press of an enabled, displayed Button posts one Button.Pressed
\* message, which bubbles and whose control is the button, to the queue of the
\* button and to no other; a message is dispatched on the button and then on
\* the ancestors of the button in child-to-parent order, on each once, and
\* when no handler has stopped it, on every one of them up to the root.
C19_PressedBubblesToRoot ==
    [][/\ (call'.op = "press" /\ call'.flag) =>
            LET b == call'.self
            IN  /\ Len(queue'[b]) = Len(queue[b]) + 1
                /\ SubSeq(queue'[b], 1, Len(queue[b])) = queue[b]
                /\ LET message == queue'[b][Len(queue'[b])]
                   IN  message.type = "Button.Pressed" /\ message.bubble /\ message.control = b
                /\ \A n \in Nodes \ {b} : queue'[n] = queue[n]
       /\ \A b \in Buttons : \A k \in 1..presses' :
            LET chain == ancestors(b).nodes
                got == delivered'[k]
                waiting == \E n \in Nodes : \E i \in 1..Len(queue'[n]) :
                              queue'[n][i].type = "Button.Pressed" /\ queue'[n][i].press = k
            IN  /\ Len(got) <= Len(chain)
                /\ \A i \in 1..Len(got) : got[i] = chain[i]
                /\ (k \notin stopped' /\ ~waiting) => got = chain]_vars

\* The message of a press has been dispatched on the button, on its parent and
\* on the parent of its parent, the root, and no handler has stopped it.
C19_Witness ==
    \E k \in 1..presses :
        /\ k \notin stopped
        /\ Len(delivered[k]) >= 3
        /\ delivered[k][1] \in Buttons
        /\ parent[delivered[k][Len(delivered[k])]] = NoNode

\* C20: the color of rich_text_style of a node is the color of the nearest
\* node on the chain self, parent, ..., root whose styles have the rule
\* `color`, and the color the loop starts from when none has; the background
\* is laid up from the root to the node, of exactly the nodes of the chain
\* whose styles have the rule `background`.
C20_NearestColorAccumulatedBackground ==
    call.op = "rich_text_style" =>
        LET chain == ancestors(call.self).nodes
            rule(n, p) == inline_styles[n][p] # Unset \/ css_styles[n][p] # Unset
            colored == {i \in 1..Len(chain) : rule(chain[i], "color")}
            grounded == {i \in 1..Len(chain) : rule(chain[i], "background")}
            bgcolor == call.style.bgcolor
        IN  /\ call.style.color =
                  IF colored = {} THEN "Color(255, 255, 255, 0)"
                  ELSE ReadThrough(css_styles, inline_styles, chain[CHOOSE i \in colored : \A j \in colored : i <= j], "color")
            /\ Len(bgcolor) = 1 + Cardinality(grounded)
            /\ bgcolor[1] = "Color(0, 0, 0, 0)"
            /\ \A i \in grounded :
                  bgcolor[1 + Cardinality({j \in grounded : j >= i})] = ReadThrough(css_styles, inline_styles, chain[i], "background")

\* The style of a node two levels below its root has been read: the node has
\* no rule of color; its parent and the root have, with different colors and
\* different backgrounds.
C20_Witness ==
    /\ call.op = "rich_text_style"
    /\ parent[call.self] # NoNode
    /\ parent[parent[call.self]] # NoNode
    /\ ~has_rule(call.self, "color")
    /\ call.style.color = RenderStyles_get(parent[call.self], "color")
    /\ has_rule(parent[parent[call.self]], "color")
    /\ call.style.color # RenderStyles_get(parent[parent[call.self]], "color")
    /\ Len(call.style.bgcolor) = 3
    /\ call.style.bgcolor[2] # call.style.bgcolor[3]

\* C21: assigning to `variant` a value that is not one of default, primary,
\* success, warning and error raises InvalidButtonVariant and leaves the
\* variant and the classes of the button as they were, without a call of
\* watch_variant; assigning the variant the button has calls no watch_variant
\* either.
C21_InvalidVariantRefused ==
    [][call'.op = "set_variant" =>
         LET b == call'.self
             v == call'.key
             watched == {i \in 1..Len(call'.effects) : call'.effects[i].do = "watch_variant"}
         IN  IF v \notin {"default", "primary", "success", "warning", "error"}
             THEN /\ call'.result = "InvalidButtonVariant"
                  /\ variant' = variant
                  /\ classes' = classes
                  /\ watched = {}
             ELSE /\ call'.result = "ok"
                  /\ v = variant[b] => watched = {} /\ variant' = variant /\ classes' = classes]_vars

\* An invalid variant has been assigned to a button whose variant had been
\* changed before, and was refused.
C21_Witness ==
    /\ call.op = "set_variant"
    /\ call.result = "InvalidButtonVariant"
    /\ variant[call.self] = "primary"
    /\ "-primary" \in classes[call.self]

\* C22: when the variant of a Button changes from old to new, the button is
\* left with the class -new and without the class -old, and with every other
\* class as it was; the class -old is removed before the class -new is added;
\* so the only class of a variant the button is left with is that of its
\* variant.
C22_VariantClassFollowsVariant ==
    [][(call'.op = "set_variant" /\ call'.result = "ok" /\ call'.key # variant[call'.self]) =>
         LET b == call'.self
             old == VariantClass(variant[b])
             new == VariantClass(call'.key)
             sets == [i \in {j \in 1..Len(call'.effects) : call'.effects[j].do = "_classes"} |-> call'.effects[i].seen]
             steps == DOMAIN sets
         IN  /\ variant'[b] = call'.key
             /\ new \in classes'[b]
             /\ old \notin classes'[b]
             /\ classes'[b] \ {old, new} = classes[b] \ {old, new}
             /\ Cardinality(steps) = 2
             /\ \A i, j \in steps : i < j => sets[i] = classes[b] \ {old} /\ sets[j] = (classes[b] \ {old}) \cup {new}
             /\ \A v \in VALID_BUTTON_VARIANTS : VariantClass(v) \in classes'[b] => v = variant'[b]]_vars

\* The variant of a button with another class has been changed from primary
\* to success.
C22_Witness ==
    /\ call.op = "set_variant"
    /\ call.key = "success"
    /\ Len(call.effects) >= 3
    /\ "-primary" \in call.effects[1].seen
    /\ classes[call.self] = {"x", "-success"}

\* C23: press(), action_press() and a click on a Button that is disabled or
\* not displayed leave the classes, the timers and the queues as they are
\* (but for the message of the click, which is taken from the queue); and the
\* message of a click, on any Button, is stopped at the button: it never
\* reaches the queue of another node.
C23_IgnoredPressChangesNothing ==
    [][/\ \A b \in Buttons :
            (call'.self = b /\ call'.op \in {"press", "action_press", "on_click"}
                /\ (disabled[b] \/ ReadThrough(css_styles, inline_styles, b, "display") = "none")) =>
                /\ classes' = classes
                /\ timers' = timers
                /\ presses' = presses
                /\ queue' = IF call'.op = "on_click" THEN [queue EXCEPT ![b] = Tail(@)] ELSE queue
       /\ \A n \in Nodes \ Buttons : \A i \in 1..Len(queue'[n]) : queue'[n][i].type # "Click"
       /\ call'.op = "on_click" => \A n \in Nodes \ {call'.self} : queue'[n] = queue[n]]_vars

\* A disabled button with a parent has been clicked; its handler has run, and
\* nothing waits in a queue.
C23_Witness ==
    /\ call.op = "on_click"
    /\ disabled[call.self]
    /\ parent[call.self] # NoNode
    /\ ~call.flag
    /\ ops >= 1
    /\ \A n \in Nodes : queue[n] = <<>>

\* A timer of node n is running, or has expired and waits in the queue of n
\* for its callback to be called.
TimerPending(n) ==
    \/ \E i \in 1..Len(timers) : timers[i].node = n
    \/ \E i \in 1..Len(queue[n]) : queue[n][i].type = "Timer"

\* C24: a press of a Button that takes effect sets one timer for the removal
\* of -active; the removal of -active from a button without it changes no
\* class; a Button whose timers have all expired and been processed is
\* without -active; and, timers expiring and the queue being processed for as
\* long as the button is mounted, after the last press the button is in the
\* end without -active for good.
C24_ActiveGoneAfterTimers ==
    /\ [][/\ (call'.op = "press" /\ call'.flag) =>
                /\ Len(timers') = Len(timers) + 1
                /\ \E i \in 1..Len(timers') :
                      /\ timers'[i].node = call'.self
                      /\ timers'[i].names = <<Active>>
                      /\ timers = SubSeq(timers', 1, i - 1) \o SubSeq(timers', i + 1, Len(timers'))
          /\ (call'.op = "press" /\ ~call'.flag) => timers' = timers
          /\ (call'.op = "on_timer" /\ Active \notin classes[call'.self]) => classes' = classes]_vars
    /\ [](\A b \in Buttons : ~TimerPending(b) => Active \notin classes[b])
    /\ <>[](\A b \in Buttons : ~TimerPending(b) /\ Active \notin classes[b])

\* The button has been pressed twice or more, every timer has expired and has
\* been processed, and the last removal found the button without -active.
C24_Witness ==
    /\ call.op = "on_timer"
    /\ ~call.flag
    /\ presses >= 2
    /\ ~TimerPending(call.self)
    /\ Active \notin classes[call.self]

=============================================================================
